---- MODULE Spec2Model ----
(***************************************************************************)
(* Model of the connection lifecycle controller built by                   *)
(* use_webtransport_with_options (src/src/use_webtransport.rs).            *)
(*                                                                         *)
(* The function creates four cells (ready_state, transport_ref,            *)
(* reconnect_timer_ref, reconnect_count_ref) and four closures over them:  *)
(* reconnect, connect, open and close.  Each closure is one operation of   *)
(* the model.  The source shows no call site for open, close or reconnect, *)
(* so each may be invoked at any time by whoever holds it.  The browser    *)
(* side is the environment: a transport's ready promise settles once, its  *)
(* closed promise settles once, and a timeout fires once.                  *)
(*                                                                         *)
(* All code runs on one event loop: every handler is one atomic action.    *)
(***************************************************************************)
EXTENDS Integers, Sequences, FiniteSets, TLC

\* ---- bounds of the model ----
MaxTransports == 2   \* transports constructed in one behaviour
MaxTimers == 2       \* timeouts scheduled in one behaviour
MaxLimit == 2        \* largest reconnect_limit configured

\* Option::None of transport_ref and reconnect_timer_ref
None == 0

VARIABLES
    ready_state,          \* the ready_state signal
    transport_ref,        \* StoredValue<Option<WebTransport>>: None or a transport id
    reconnect_timer_ref,  \* StoredValue<Option<TimeoutHandle>>: None or a timer handle
    reconnect_count_ref,  \* StoredValue<u64>
    reconnect_limit,      \* options.reconnect_limit
    immediate,            \* options.immediate
    url_ok,               \* whether WebTransport::new_with_options accepts the url
    transports,           \* every WebTransport constructed so far, in order
    timers,               \* handles of the timeouts the browser still holds
    timer_seq,            \* number of timeouts scheduled so far
    close_tasks,          \* transports whose closed promise a close() task awaits
    on_error_calls,       \* invocations of on_error
    on_close_calls,       \* invocations of on_close
    threw,                \* the last handler ended in unwrap_throw's exception
    open_called,          \* open() has run at least once
    user_closed,          \* close() has run since the last open()
    torn_down,            \* the scope that owns the controller has ended
    last                  \* the handler that ran last, and what it saw

vars == <<ready_state, transport_ref, reconnect_timer_ref, reconnect_count_ref,
          reconnect_limit, immediate, url_ok, transports, timers, timer_seq,
          close_tasks, on_error_calls, on_close_calls, threw, open_called, user_closed,
          torn_down, last>>

config == <<reconnect_limit, immediate, url_ok>>

\* open, close and reconnect are called only while the owning scope lives
Alive == ~torn_down

\* The transport constructed by the most recent connect (0 when there is none)
Latest == Len(transports)

\* What a handler records about itself: its name, the transport or timer it
\* ran for, and the ready_state, counter and number of live timers it found.
Event(op, t) ==
    [op |-> op, t |-> t, from |-> ready_state, count |-> reconnect_count_ref,
     ntimers |-> Cardinality(timers)]

\* A freshly constructed WebTransport: both promises pending, close() not
\* requested, on_open not yet invoked by the task that awaits its ready promise.
NewTransport ==
    [ready |-> "pending", closed |-> "pending", close_req |-> FALSE, on_open |-> 0]

\* ---- construction (lines 35-55, 135-138) ----
InitReadyState == "Closed"

Init ==
    /\ ready_state = InitReadyState
    /\ transport_ref = None
    /\ reconnect_timer_ref = None
    /\ reconnect_count_ref = 0
    /\ reconnect_limit \in 0..MaxLimit
    /\ immediate \in BOOLEAN
    /\ url_ok \in BOOLEAN
    /\ transports = <<>>
    /\ timers = {}
    /\ timer_seq = 0
    /\ close_tasks = {}
    /\ on_error_calls = 0
    /\ on_close_calls = 0
    /\ threw = FALSE
    /\ open_called = FALSE
    /\ user_closed = FALSE
    /\ torn_down = FALSE
    /\ last = [op |-> "new", t |-> 0, from |-> InitReadyState, count |-> 0, ntimers |-> 0]

\* ---- the connect closure (lines 76-102) ----
\* transport.close() on the transport read from transport_ref, if any
CloseHeld(ts, tr) ==
    IF tr # None THEN [ts EXCEPT ![tr].close_req = TRUE] ELSE ts

\* transport_ref after connect constructed transport new: the closure only
\* reads the cell (line 77) and never stores the new transport in it
StoredTransportNew(tr, new) == new

StoredTransport(tr, new) == tr

\* The state connect announces after constructing the transport (line 88)
ConnectState == "Connecting"

\* connect(): clears reconnect_timer_ref, closes the held transport, then
\* constructs a new one.  unwrap_throw aborts the handler when construction
\* fails; otherwise ready_state is set and the task awaiting ready is spawned.
Connect ==
    /\ reconnect_timer_ref' = None
    /\ IF url_ok
         THEN /\ transports' = Append(CloseHeld(transports, transport_ref), NewTransport)
              /\ ready_state' = ConnectState
              /\ transport_ref' = StoredTransport(transport_ref, Len(transports) + 1)
              /\ threw' = FALSE
         ELSE /\ transports' = CloseHeld(transports, transport_ref)
              /\ ready_state' = ready_state
              /\ transport_ref' = transport_ref
              /\ threw' = TRUE
    /\ UNCHANGED <<close_tasks, on_error_calls, on_close_calls>>

\* ---- open (lines 104-111) ----
OpenCountKept(c) == c

OpenCount(c) == 0

open ==
    /\ Alive
    /\ url_ok => Len(transports) < MaxTransports
    /\ last' = Event("open", 0)
    /\ reconnect_count_ref' = OpenCount(reconnect_count_ref)
    /\ open_called' = TRUE
    /\ user_closed' = FALSE
    /\ Connect
    /\ UNCHANGED <<config, torn_down, timers, timer_seq>>

\* ---- close (lines 113-133) ----
\* The counter close() leaves behind (line 114)
CloseCount(limit) == limit

\* The ready_state close() leaves behind: Closing only when a transport is held
CloseStateAlways(tr, rs) == "Closing"

CloseState(tr, rs) == IF tr # None THEN "Closing" ELSE rs

\* close(): with a held transport it requests its close and spawns the task
\* awaiting its closed promise; with none it only sets the counter.
close ==
    /\ Alive
    /\ last' = Event("close", transport_ref)
    /\ reconnect_count_ref' = CloseCount(reconnect_limit)
    /\ transports' = CloseHeld(transports, transport_ref)
    /\ ready_state' = CloseState(transport_ref, ready_state)
    /\ close_tasks' = IF transport_ref # None THEN close_tasks \cup {transport_ref}
                                              ELSE close_tasks
    /\ threw' = FALSE
    /\ user_closed' = TRUE
    /\ UNCHANGED <<config, torn_down, transport_ref, reconnect_timer_ref, timers, timer_seq,
                   on_error_calls, on_close_calls, open_called>>

\* ---- reconnect (lines 57-74) ----
ShouldReconnectAnyState(count, limit, rs) == count < limit

ShouldReconnect(count, limit, rs) == count < limit /\ rs = "Open"

\* reconnect(): schedules a timeout and stores its handle, or does nothing
reconnect ==
    /\ Alive
    /\ ShouldReconnect(reconnect_count_ref, reconnect_limit, ready_state)
          => timer_seq < MaxTimers
    /\ last' = Event("reconnect", 0)
    /\ IF ShouldReconnect(reconnect_count_ref, reconnect_limit, ready_state)
         THEN /\ timer_seq' = timer_seq + 1
              /\ timers' = timers \cup {timer_seq + 1}
              /\ reconnect_timer_ref' = timer_seq + 1
         ELSE UNCHANGED <<timer_seq, timers, reconnect_timer_ref>>
    /\ threw' = FALSE
    /\ UNCHANGED <<config, torn_down, ready_state, transport_ref, reconnect_count_ref, transports,
                   close_tasks, on_error_calls, on_close_calls, open_called, user_closed>>

\* ---- the timeout callback (lines 63-68) ----
\* The counter after the callback: incremented unless connect() threw
TimerCount(c, failed) == IF failed THEN c ELSE c + 1

\* The browser fires timeout h: connect(), then the counter is incremented.
\* Overwriting reconnect_timer_ref does not clear a timeout, so every
\* scheduled timeout fires.
TimerFire(h) ==
    /\ h \in timers
    /\ url_ok => Len(transports) < MaxTransports
    /\ last' = Event("timer", h)
    /\ timers' = timers \ {h}
    /\ Connect
    /\ reconnect_count_ref' = TimerCount(reconnect_count_ref, threw')
    /\ UNCHANGED <<config, torn_down, timer_seq, open_called, user_closed>>

\* ---- the task spawned by connect (lines 90-101) ----
ReadyOkState == "Open"

ReadyErrState == "Closed"

\* on_open invocations of the Ok branch (line 94)
OnOpenCallsNone(n) == n

OnOpenCalls(n) == n + 1

\* on_error invocations of the Err branch (lines 96-99: none)
OnErrorCalls(n) == n

\* transport t's ready promise resolves and the task awaiting it resumes
ReadyOk(t) ==
    /\ t \in 1..Len(transports)
    /\ transports[t].ready = "pending"
    /\ last' = Event("ready_ok", t)
    /\ ready_state' = ReadyOkState
    /\ transports' = [transports EXCEPT ![t].ready = "resolved",
                                        ![t].on_open = OnOpenCalls(@)]
    /\ threw' = FALSE
    /\ UNCHANGED <<config, torn_down, transport_ref, reconnect_timer_ref, reconnect_count_ref,
                   timers, timer_seq, close_tasks, on_error_calls, on_close_calls,
                   open_called, user_closed>>

\* transport t's ready promise rejects and the task awaiting it resumes
ReadyErr(t) ==
    /\ t \in 1..Len(transports)
    /\ transports[t].ready = "pending"
    /\ last' = Event("ready_err", t)
    /\ ready_state' = ReadyErrState
    /\ transports' = [transports EXCEPT ![t].ready = "rejected"]
    /\ on_error_calls' = OnErrorCalls(on_error_calls)
    /\ threw' = FALSE
    /\ UNCHANGED <<config, torn_down, transport_ref, reconnect_timer_ref, reconnect_count_ref,
                   timers, timer_seq, close_tasks, on_close_calls, open_called, user_closed>>

\* ---- a transport's closed promise settles (lines 119-131) ----
\* on_close invocations of the close() task (lines 123-130)
OnCloseCalls(n, ok) == IF ok THEN n + 1 ELSE n

\* Transport t's closed promise resolves (ok) or rejects.  Only a task
\* spawned by close() awaits it; nothing else in the source listens.
TransportClosed(t, ok) ==
    /\ t \in 1..Len(transports)
    /\ transports[t].ready # "pending"
    /\ transports[t].closed = "pending"
    /\ transports[t].ready = "rejected" => ~ok
    /\ last' = Event(IF ok THEN "closed_ok" ELSE "closed_err", t)
    /\ transports' = [transports EXCEPT
                         ![t].closed = IF ok THEN "resolved" ELSE "rejected"]
    /\ IF t \in close_tasks
         THEN /\ ready_state' = "Closed"
              /\ close_tasks' = close_tasks \ {t}
              /\ on_close_calls' = OnCloseCalls(on_close_calls, ok)
         ELSE UNCHANGED <<ready_state, close_tasks, on_close_calls>>
    /\ threw' = FALSE
    /\ UNCHANGED <<config, torn_down, transport_ref, reconnect_timer_ref, reconnect_count_ref,
                   timers, timer_seq, on_error_calls, open_called, user_closed>>

\* ---- teardown of the owning scope (lines 35-138: no cleanup is registered) ----
\* The function registers nothing to run when its scope ends: the cells, the
\* timeouts held by the browser and the spawned tasks are left as they are.
Teardown ==
    /\ Alive
    /\ last' = Event("teardown", 0)
    /\ torn_down' = TRUE
    /\ threw' = FALSE
    /\ UNCHANGED <<config, ready_state, transport_ref, reconnect_timer_ref,
                   reconnect_count_ref, transports, timers, timer_seq, close_tasks,
                   on_error_calls, on_close_calls, open_called, user_closed>>

Next ==
    \/ open
    \/ close
    \/ reconnect
    \/ Teardown
    \/ \E h \in 1..MaxTimers : TimerFire(h)
    \/ \E t \in 1..MaxTransports : ReadyOk(t)
    \/ \E t \in 1..MaxTransports : ReadyErr(t)
    \/ \E t \in 1..MaxTransports, ok \in BOOLEAN : TransportClosed(t, ok)

Spec == Init /\ [][Next]_vars

\* ---- properties ----
\* The callbacks invoked by a step: on_open per transport, on_error, on_close
NoCallback ==
    /\ on_error_calls' = on_error_calls
    /\ on_close_calls' = on_close_calls
    /\ \A t \in 1..Len(transports) : transports'[t].on_open = transports[t].on_open

\* A step in which the closed promise of t settles with no close() task awaiting it
UnexpectedClose ==
    /\ last'.op \in {"closed_ok", "closed_err"}
    /\ last'.t = Latest
    /\ last'.t \notin close_tasks
    /\ ready_state = "Open"

\* C1: when the ready promise of the most recently constructed transport
\* resolves while ready_state is Connecting, ready_state becomes Open and
\* on_open has been invoked exactly once for that transport; no transport's
\* task invokes on_open other than once, on resolution.
C1_ReadyOkOpens ==
    /\ (last.op = "ready_ok" /\ last.t = Latest /\ last.from = "Connecting")
          => (ready_state = "Open" /\ transports[last.t].on_open = 1)
    /\ \A t \in 1..Len(transports) :
          transports[t].on_open = IF transports[t].ready = "resolved" THEN 1 ELSE 0

C1_Witness ==
    /\ last.op = "ready_ok" /\ last.t = Latest /\ last.from = "Connecting"
    /\ ready_state = "Open"
    /\ transports[Latest].on_open = 1

\* C2: when the ready promise of the most recently constructed transport
\* rejects while ready_state is Connecting, ready_state becomes Closed,
\* on_error is invoked and no timeout is scheduled.
C2_ReadyErrReports ==
    [][(last'.op = "ready_err" /\ last'.t = Latest /\ ready_state = "Connecting")
          => (/\ ready_state' = "Closed"
              /\ on_error_calls' = on_error_calls + 1
              /\ timers' = timers
              /\ timer_seq' = timer_seq)]_vars

\* C3: when the current transport closes without close() while ready_state is
\* Open and reconnect_count_ref < reconnect_limit, exactly one timeout is
\* scheduled; when a timeout fires, connect is re-issued (Connecting) and the
\* counter grows by exactly 1.
C3_UnexpectedCloseSchedules ==
    [][/\ (UnexpectedClose /\ reconnect_count_ref < reconnect_limit)
             => (/\ timer_seq' = timer_seq + 1
                 /\ timers' = timers \cup {timer_seq'})
       /\ (last'.op = "timer" /\ url_ok)
             => (/\ ready_state' = "Connecting"
                 /\ reconnect_count_ref' = reconnect_count_ref + 1)]_vars

\* C4: when the current transport closes without close() while ready_state is
\* Open and reconnect_count_ref = reconnect_limit, no timeout is scheduled and
\* ready_state becomes Closed.
C4_ExhaustedCloseStops ==
    [][(UnexpectedClose /\ reconnect_count_ref = reconnect_limit)
          => (/\ timers' = timers
              /\ timer_seq' = timer_seq
              /\ ready_state' = "Closed")]_vars

\* C5: close() while ready_state is Open sets the counter to reconnect_limit,
\* requests the close of the current transport and moves ready_state to Closing.
C5_CloseFromOpen ==
    [][(last'.op = "close" /\ ready_state = "Open")
          => (/\ reconnect_count_ref' = reconnect_limit
              /\ ready_state' = "Closing"
              /\ transports'[Latest].close_req)]_vars

\* C6: close() while ready_state is Closed and no transport is held leaves
\* ready_state at Closed, invokes no callback and schedules no timeout.
C6_CloseWhenClosedNoOp ==
    [][(last'.op = "close" /\ ready_state = "Closed" /\ transport_ref = None)
          => (/\ ready_state' = "Closed"
              /\ NoCallback
              /\ timers' = timers
              /\ timer_seq' = timer_seq
              /\ reconnect_timer_ref' = reconnect_timer_ref)]_vars

C6_Witness ==
    /\ last.op = "close" /\ last.from = "Closed"
    /\ transport_ref = None
    /\ ready_state = "Closed"
    /\ Latest > 0

\* C7: every open() sets the counter to 0, whatever it was, and runs connect:
\* the stored timer handle is cleared and a transport is constructed
\* (ready_state Connecting), or its construction throws.
C7_OpenResetsCount ==
    [][last'.op = "open"
          => (/\ reconnect_count_ref' = 0
              /\ reconnect_timer_ref' = None
              /\ IF url_ok
                   THEN /\ ready_state' = "Connecting"
                        /\ Len(transports') = Len(transports) + 1
                   ELSE threw')]_vars

C7_Witness ==
    /\ last.op = "open"
    /\ last.count > 0
    /\ last.count >= reconnect_limit
    /\ reconnect_count_ref = 0
    /\ ready_state = "Connecting"

\* C8: with immediate = false, until open() is first called ready_state is
\* Closed and no transport has been constructed.
C8_NotImmediateStaysClosed ==
    (~immediate /\ ~open_called) => (ready_state = "Closed" /\ Latest = 0)

C8_Witness ==
    /\ ~immediate /\ ~open_called
    /\ last.op = "reconnect"
    /\ reconnect_limit > 0
    /\ ready_state = "Closed" /\ Latest = 0

\* C9: with immediate = true, open() has run in every state after
\* construction, so a transport was constructed without any caller action.
C9_ImmediateOpens ==
    immediate => (open_called /\ (url_ok => Latest >= 1))

\* C10: the settling of the ready promise of a transport that a later connect
\* superseded changes neither ready_state nor invokes a callback.
C10_StaleReadyIgnored ==
    [][(last'.op \in {"ready_ok", "ready_err"} /\ last'.t < Latest)
          => (ready_state' = ready_state /\ NoCallback)]_vars

\* C11: after close(), no timeout-driven connect happens until the next
\* open(), also when a timeout was pending when close() was called.
C11_NoReconnectAfterClose ==
    [][~(user_closed /\ last'.op = "timer")]_vars

\* C12: no handler run by open() or close() ends in a thrown exception.
C12_NeverThrows ==
    last.op \in {"open", "close"} => ~threw

\* C13: when the closed promise of the current transport settles right after
\* close(), ready_state becomes Closed and on_close is invoked, whether the
\* promise resolves or rejects.
C13_CloseCompletes ==
    [][(/\ last.op = "close"
        /\ last'.op \in {"closed_ok", "closed_err"}
        /\ last'.t = Latest)
          => (/\ ready_state' = "Closed"
              /\ on_close_calls' = on_close_calls + 1)]_vars

\* A transport that is still live: its handshake has not failed, its closed
\* promise is pending and nobody requested its close
Live(t) ==
    /\ transports[t].ready # "rejected"
    /\ transports[t].closed = "pending"
    /\ ~transports[t].close_req

\* C14: at most one transport is live: every transport constructed before the
\* most recent one has been asked to close (or has already closed or failed).
C14_OneLiveTransport ==
    \A t \in 1..(Latest - 1) : ~Live(t)

\* C15: teardown cancels every pending timeout and closes every live
\* transport, and after teardown no transport is constructed, ready_state
\* does not change and no callback is invoked.
C15_TeardownCleansUp ==
    [][/\ last'.op = "teardown"
             => (/\ timers' = {}
                 /\ \A t \in 1..Latest :
                       \/ transports'[t].close_req
                       \/ transports'[t].closed # "pending"
                       \/ transports'[t].ready = "rejected")
       /\ torn_down
             => (/\ Len(transports') = Len(transports)
                 /\ ready_state' = ready_state
                 /\ NoCallback)]_vars

\* The changes of ready_state the lifecycle allows
Edges ==
    {<<"Closed", "Connecting">>, <<"Connecting", "Open">>, <<"Connecting", "Closed">>,
     <<"Open", "Closing">>, <<"Closing", "Closed">>, <<"Open", "Closed">>}

\* C16: ready_state starts at Closed and every change of it follows one of
\* the edges Closed->Connecting, Connecting->Open, Connecting->Closed,
\* Open->Closing, Closing->Closed, Open->Closed.
C16_OnlyLifecycleEdges ==
    /\ ready_state = "Closed"
    /\ [][ready_state' # ready_state => <<ready_state, ready_state'>> \in Edges]_vars

\* C17: once connect has constructed a transport, transport_ref holds the
\* most recently constructed one.
C17_TransportStored ==
    Latest > 0 => transport_ref = Latest

\* C18: transport_ref holds a transport only while ready_state is Connecting,
\* Open or Closing; while ready_state is Closed it is None.
C18_HeldOnlyWhileActive ==
    transport_ref # None => ready_state \in {"Connecting", "Open", "Closing"}

C18_Witness ==
    /\ ready_state = "Closed"
    /\ last.op = "ready_err" /\ last.t = Latest
    /\ transport_ref = None

\* C19: at most one timeout is pending at any time, and after a connect
\* attempt has started (from open() or from a fired timeout) no timeout
\* scheduled earlier is still pending.
C19_OneTimerCancelledByConnect ==
    /\ [](Cardinality(timers) <= 1)
    /\ [][last'.op \in {"open", "timer"} => timers' = {}]_vars

\* C20: reconnect_count_ref never exceeds reconnect_limit.
C20_CountWithinLimit ==
    reconnect_count_ref <= reconnect_limit
====
